---- MODULE Spec2Model ----
(***************************************************************************)
(* A model of language_creator.py: the phonology, morphology and syntax    *)
(* systems and the run of LanguageCreatorGame.run_game.                    *)
(*                                                                         *)
(* A Python str is a sequence of one-character strings, so that            *)
(* concatenation, len() and str.strip() are computed and not assumed.      *)
(* Rule names, rule types, order tags and bucket keys are only ever        *)
(* compared, and are TLA+ strings.                                         *)
(***************************************************************************)
EXTENDS Integers, Sequences, FiniteSets, TLC

VARIABLES
    pc,              \* position of run_game
    current_level,   \* LanguageCreatorGame.current_level
    consonants,      \* phonology.consonants
    vowels,          \* phonology.vowels
    vocabulary,      \* LanguageCreatorGame.vocabulary: bucket -> list of words
    rules,           \* morphology.rules
    default_order,   \* syntax.default_order
    allowed_orders,  \* syntax.allowed_orders
    syntax_rules,    \* syntax.rules
    idx,             \* iterations done by the running for-loop
    snapshot,        \* the copy vocabulary['unknown'][:] level 2 iterates
    error,           \* the exception that ended the run, "none" while it runs
    shown,           \* what the running step computed and printed
    call             \* the last direct call of an engine method, its result

vars == << pc, current_level, consonants, vowels, vocabulary, rules,
           default_order, allowed_orders, syntax_rules, idx, snapshot, error,
           shown, call >>

----------------------------------------------------------------------------
(* Strings *)

SP == <<" ">>

\* str.strip(): whitespace removed from both ends.
RECURSIVE lstrip(_)
lstrip(s) == IF s # <<>> /\ Head(s) = " " THEN lstrip(Tail(s)) ELSE s

RECURSIVE rstrip(_)
rstrip(s) ==
    IF s # <<>> /\ s[Len(s)] = " " THEN rstrip(SubSeq(s, 1, Len(s) - 1)) ELSE s

strip(s) == rstrip(lstrip(s))

\* The results of a call: a value, or the exception it raised.
Ok(v) == [err |-> "none", val |-> v]
Raise(e) == [err |-> e, val |-> <<>>]

----------------------------------------------------------------------------
(* MorphologySystem *)

RuleTypes == {"prefix", "suffix", "infix", "reduplication"}

MorphologyRule(name, rule_type, marker) ==
    [name |-> name, rule_type |-> rule_type, marker |-> marker]

\* add_rule: the rule is appended, whatever the list holds.
add_rule(rule_list, name, rule_type, marker) ==
    Append(rule_list, MorphologyRule(name, rule_type, marker))

\* The loop of apply_morphology from rule k on: a rule of the name returns
\* for the types prefix, suffix and reduplication; for any other type no
\* branch returns and the loop goes on to the next rule.
RECURSIVE apply_morphology_from(_, _, _, _)
apply_morphology_from(rule_list, k, base_word, rule_name) ==
    IF k > Len(rule_list) THEN base_word
    ELSE LET rule == rule_list[k] IN
         IF rule.name = rule_name /\ rule.rule_type = "prefix"
         THEN rule.marker \o base_word
         ELSE IF rule.name = rule_name /\ rule.rule_type = "suffix"
         THEN base_word \o rule.marker
         ELSE IF rule.name = rule_name /\ rule.rule_type = "reduplication"
         THEN base_word \o base_word
         ELSE apply_morphology_from(rule_list, k + 1, base_word, rule_name)

\* A slip the claims about a miss must notice: the loop variable, left on
\* the last rule, is applied when no name matched.
apply_morphology_last(rule_list, base_word, rule_name) ==
    LET found == apply_morphology_from(rule_list, 1, base_word, rule_name) IN
    IF found = base_word /\ rule_list # <<>>
    THEN rule_list[Len(rule_list)].marker \o base_word
    ELSE found

\* A slip the claims about inflection must notice: a suffix put in front.
apply_morphology_front(rule_list, base_word, rule_name) ==
    apply_morphology_from(
        [k \in 1..Len(rule_list) |->
            [rule_list[k] EXCEPT !.rule_type =
                IF @ = "suffix" THEN "prefix" ELSE @]],
        1, base_word, rule_name)

apply_morphology(rule_list, base_word, rule_name) ==
    apply_morphology_from(rule_list, 1, base_word, rule_name)

----------------------------------------------------------------------------
(* SyntaxSystem *)

\* The order argument left out (order=None).
NoOrder == "None"

\* word_order = order or self.default_order: None and "" are both falsy.
word_order_of(order, default) ==
    IF order = NoOrder \/ order = "" THEN default ELSE order

\* A slip the ordering claims must notice: VSO assembled as VOS.
generate_sentence_vso(default, subject, verb, obj, order) ==
    LET word_order == word_order_of(order, default) IN
    IF word_order = "SOV" THEN strip(subject \o SP \o obj \o SP \o verb)
    ELSE IF word_order \in {"VOS", "VSO"}
    THEN strip(verb \o SP \o obj \o SP \o subject)
    ELSE strip(subject \o SP \o verb \o SP \o obj)

generate_sentence(default, subject, verb, obj, order) ==
    LET word_order == word_order_of(order, default) IN
    IF word_order = "SVO" THEN strip(subject \o SP \o verb \o SP \o obj)
    ELSE IF word_order = "SOV" THEN strip(subject \o SP \o obj \o SP \o verb)
    ELSE IF word_order = "VOS" THEN strip(verb \o SP \o obj \o SP \o subject)
    ELSE IF word_order = "VSO" THEN strip(verb \o SP \o subject \o SP \o obj)
    ELSE strip(subject \o SP \o verb \o SP \o obj)

----------------------------------------------------------------------------
(* PhonologySystem *)

DefaultConsonants ==
    { <<"b">>, <<"c">>, <<"d">>, <<"f">>, <<"g">>, <<"h">>, <<"j">>, <<"k">>,
      <<"l">>, <<"m">>, <<"n">>, <<"p">>, <<"r">>, <<"s">>, <<"t">>, <<"v">>,
      <<"w">>, <<"x">>, <<"y">>, <<"z">>, <<"n", "g">>, <<"s", "h">>,
      <<"t", "h">>, <<"c", "h">> }

DefaultVowels == { <<"a">>, <<"e">>, <<"i">>, <<"o">>, <<"u">> }

syllable_patterns ==
    << <<"V">>, <<"C", "V">>, <<"V", "C">>, <<"C", "C", "V">>,
       <<"C", "V", "C">>, <<"C", "C", "V", "C">> >>

\* Bound: the phonemes the draws of the random source are followed on.
Drawn == { <<"k">>, <<"a">>, <<"i">> }

\* Bound: the generated words the runs are followed on.
Words == { <<"a">>, <<"k", "i">> }

\* random.choice of a set or of a list: any member, IndexError when empty.
random_choice(S) ==
    IF S = {} THEN {Raise("IndexError")} ELSE {Ok(x) : x \in S}

list_choice(list) == random_choice({list[k] : k \in 1..Len(list)})

phoneme_choice(S) ==
    {d \in random_choice(S) : d.err # "none" \/ d.val \in Drawn}

\* The loop of generate_syllable over the pattern from slot k on: every
\* result it can end with. A draw that raises ends the call.
RECURSIVE fill_pattern(_, _, _, _, _)
fill_pattern(pattern, k, syllable, C, V) ==
    IF k > Len(pattern) THEN {Ok(syllable)}
    ELSE IF pattern[k] \notin {"C", "V"}
    THEN fill_pattern(pattern, k + 1, syllable, C, V)
    ELSE UNION { IF d.err # "none" THEN {d}
                 ELSE fill_pattern(pattern, k + 1, syllable \o d.val, C, V) :
                 d \in phoneme_choice(IF pattern[k] = "C" THEN C ELSE V) }

\* generate_syllable with the pattern it drew.
syllable_draws(C, V) ==
    UNION { { [pattern |-> syllable_patterns[p], ret |-> r] :
              r \in fill_pattern(syllable_patterns[p], 1, <<>>, C, V) } :
            p \in 1..Len(syllable_patterns) }

generate_syllable(C, V) == {d.ret : d \in syllable_draws(C, V)}

\* Whether the runs are followed on a word that starts with w.
Followed(w) ==
    \E x \in Words : Len(w) <= Len(x) /\ SubSeq(x, 1, Len(w)) = w

\* The loop of generate_word with n syllables to go: every result it can
\* end with. A syllable that raises ends the call.
RECURSIVE word_loop(_, _, _)
word_loop(n, word, syllables) ==
    IF n = 0 THEN {Ok(word)}
    ELSE UNION { IF s.err # "none" THEN {s}
                 ELSE word_loop(n - 1, word \o s.val, syllables) :
                 s \in {t \in syllables :
                          t.err # "none" \/ Followed(word \o t.val)} }

\* generate_word(): syllable_count = random.randint(1, 3).
generate_word(C, V) ==
    LET syllables == generate_syllable(C, V) IN
    {w \in UNION { word_loop(n, <<>>, syllables) : n \in 1..3 } :
        w.err # "none" \/ w.val \in Words}

\* The add request of a consonant (at most 2 characters) and of a vowel (at
\* most 3): anything else is passed over.
add_consonant_wide(C, s) == IF s # <<>> THEN C \cup {s} ELSE C

add_consonant(C, s) == IF s # <<>> /\ Len(s) <= 2 THEN C \cup {s} ELSE C

add_vowel(V, s) == IF s # <<>> /\ Len(s) <= 3 THEN V \cup {s} ELSE V

\* The remove request: only a member is removed.
remove_phoneme(S, s) == IF s \in S THEN S \ {s} ELSE S

----------------------------------------------------------------------------
(* LanguageCreatorGame *)

Nothing == [op |-> "none", args |-> <<>>, ret |-> Ok(<<>>)]

Init ==
    /\ pc = "level1_consonants"
    /\ current_level = 1
    /\ consonants = DefaultConsonants
    /\ vowels = DefaultVowels
    /\ vocabulary = [b \in {"unknown", "noun", "verb", "case"} |-> <<>>]
    /\ rules = <<>>
    /\ default_order = "SVO"
    /\ allowed_orders = <<>>
    /\ syntax_rules = <<>>
    /\ idx = 0
    /\ snapshot = <<>>
    /\ error = "none"
    /\ shown = Nothing
    /\ call = Nothing

\* Bounds: what the user types at the add and the remove prompts.
AddInputs == { <<>>, <<"q">>, <<"a", "e", "i">>, <<"a", "e", "i", "o">> }

RemoveInputs == DefaultVowels \cup { <<"k">>, <<"z", "z">> }

Request(op, s) == [op |-> op, args |-> <<s>>, ret |-> Ok(<<>>)]

Level1AddConsonant ==
    /\ pc = "level1_consonants" /\ error = "none"
    /\ \E s \in AddInputs :
        /\ consonants' = add_consonant(consonants, s)
        /\ shown' = Request("add_consonant", s)
    /\ UNCHANGED << pc, current_level, vowels, vocabulary, rules,
                    default_order, allowed_orders, syntax_rules, idx,
                    snapshot, error, call >>

Level1RemoveConsonant ==
    /\ pc = "level1_consonants" /\ error = "none"
    /\ \E s \in RemoveInputs :
        /\ consonants' = remove_phoneme(consonants, s)
        /\ shown' = Request("remove_consonant", s)
    /\ UNCHANGED << pc, current_level, vowels, vocabulary, rules,
                    default_order, allowed_orders, syntax_rules, idx,
                    snapshot, error, call >>

Level1ConsonantsDone ==
    /\ pc = "level1_consonants" /\ error = "none" /\ current_level = 1
    /\ pc' = "level1_vowels"
    /\ shown' = Nothing
    /\ UNCHANGED << current_level, consonants, vowels, vocabulary, rules,
                    default_order, allowed_orders, syntax_rules, idx,
                    snapshot, error, call >>

Level1AddVowel ==
    /\ pc = "level1_vowels" /\ error = "none"
    /\ \E s \in AddInputs :
        /\ vowels' = add_vowel(vowels, s)
        /\ shown' = Request("add_vowel", s)
    /\ UNCHANGED << pc, current_level, consonants, vocabulary, rules,
                    default_order, allowed_orders, syntax_rules, idx,
                    snapshot, error, call >>

Level1RemoveVowel ==
    /\ pc = "level1_vowels" /\ error = "none"
    /\ \E s \in RemoveInputs :
        /\ vowels' = remove_phoneme(vowels, s)
        /\ shown' = Request("remove_vowel", s)
    /\ UNCHANGED << pc, current_level, consonants, vocabulary, rules,
                    default_order, allowed_orders, syntax_rules, idx,
                    snapshot, error, call >>

Level1VowelsDone ==
    /\ pc = "level1_vowels" /\ error = "none"
    /\ pc' = "level1_words"
    /\ idx' = 0
    /\ shown' = Nothing
    /\ UNCHANGED << current_level, consonants, vowels, vocabulary, rules,
                    default_order, allowed_orders, syntax_rules, snapshot,
                    error, call >>

\* range(5): the words level 1 generates.
NumWords == 5

\* One iteration of the loop that generates the example words; the last one
\* completes the level, and run_game goes on to level 2.
Level1Generate ==
    /\ pc = "level1_words" /\ error = "none" /\ idx < NumWords
    /\ \E w \in generate_word(consonants, vowels) :
        /\ shown' = [op |-> "generate_word", args |-> <<>>, ret |-> w]
        /\ IF w.err # "none"
           THEN /\ error' = w.err
                /\ UNCHANGED << pc, current_level, vocabulary, idx >>
           ELSE /\ vocabulary' =
                     [vocabulary EXCEPT !["unknown"] = Append(@, w.val)]
                /\ error' = error
                /\ IF idx + 1 = NumWords
                   THEN current_level' = 2 /\ pc' = "level2_classify"
                        /\ idx' = 0
                   ELSE UNCHANGED << current_level, pc >> /\ idx' = idx + 1
    /\ UNCHANGED << consonants, vowels, rules, default_order,
                    allowed_orders, syntax_rules, snapshot, call >>

\* phonology.generate_syllable() as generate_word calls it, on the
\* inventories level 1 configured.
GenerateSyllable ==
    /\ pc = "level1_words" /\ error = "none"
    /\ \E d \in syllable_draws(consonants, vowels) :
        call' = [op |-> "generate_syllable", args |-> <<d.pattern>>,
                 ret |-> d.ret]
    /\ UNCHANGED << pc, current_level, consonants, vowels, vocabulary, rules,
                    default_order, allowed_orders, syntax_rules, idx,
                    snapshot, error, shown >>

NextPhonology ==
    \/ Level1AddConsonant
    \/ Level1RemoveConsonant
    \/ Level1ConsonantsDone
    \/ Level1AddVowel
    \/ Level1RemoveVowel
    \/ Level1VowelsDone
    \/ Level1Generate
    \/ GenerateSyllable

SpecPhonology == Init /\ [][NextPhonology]_vars

----------------------------------------------------------------------------
(* The morphology engine called directly *)

\* Bounds: the rules registered and the words inflected.
MaxRules == 2

RuleNames == {"past", "case"}

Markers == { <<"n", "i", "-">>, <<"-", "a">> }

BaseWords == { <<"t", "a", "l">>, <<>> }

AddRule ==
    /\ Len(rules) < MaxRules
    /\ \E name \in RuleNames, rule_type \in RuleTypes, marker \in Markers :
        rules' = add_rule(rules, name, rule_type, marker)
    /\ UNCHANGED << pc, current_level, consonants, vowels, vocabulary,
                    default_order, allowed_orders, syntax_rules, idx,
                    snapshot, error, shown, call >>

ApplyMorphology ==
    /\ \E base_word \in BaseWords, rule_name \in RuleNames \cup {"nonexistent"} :
        call' = [op |-> "apply_morphology",
                 args |-> <<rules, base_word, rule_name>>,
                 ret |-> Ok(apply_morphology(rules, base_word, rule_name))]
    /\ UNCHANGED << pc, current_level, consonants, vowels, vocabulary, rules,
                    default_order, allowed_orders, syntax_rules, idx,
                    snapshot, error, shown >>

NextMorphology ==
    \/ AddRule
    \/ ApplyMorphology

SpecMorphology == Init /\ [][NextMorphology]_vars

----------------------------------------------------------------------------
(* The syntax engine called directly *)

\* level_3_syntax: orderDICT.get(order_choice, "SVO"), on the input or "1".
main_order_of(order_choice) ==
    IF order_choice \in {"", "1"} THEN "SVO"
    ELSE IF order_choice = "2" THEN "SOV"
    ELSE IF order_choice = "3" THEN "VOS"
    ELSE "SVO"

\* level_3_syntax: VSO is allowed besides VOS on the answer "y".
allowed_orders_of(main_order, allow) ==
    IF main_order = "VOS" /\ allow = "y" THEN <<"VSO">> ELSE <<>>

\* Bounds: the answers at the prompts of level 3.
OrderChoices == {"", "1", "2", "3", "9"}

AllowChoices == {"", "y", "n"}

\* Bounds: the constituents and the order arguments of a direct call.
Subjects == { <<"s">>, <<"t", " ", "s">>, <<" ", "s">> }

Verbs == { <<"v">>, <<"v", " ">> }

Objects == { <<>>, <<"o">>, <<"k", " ", "o">>, <<"o", " ">> }

OrderArgs == {NoOrder, "", "SVO", "SOV", "VOS", "VSO", "OSV"}

SetOrder ==
    /\ \E order_choice \in OrderChoices, allow \in AllowChoices :
        /\ default_order' = main_order_of(order_choice)
        /\ allowed_orders' =
               allowed_orders_of(main_order_of(order_choice), allow)
    /\ UNCHANGED << pc, current_level, consonants, vowels, vocabulary, rules,
                    syntax_rules, idx, snapshot, error, shown, call >>

GenerateSentence ==
    /\ \E subject \in Subjects, verb \in Verbs, obj \in Objects,
          order \in OrderArgs :
        call' = [op |-> "generate_sentence",
                 args |-> <<default_order, subject, verb, obj, order>>,
                 ret |-> Ok(generate_sentence(default_order, subject, verb,
                                              obj, order))]
    /\ UNCHANGED << pc, current_level, consonants, vowels, vocabulary, rules,
                    default_order, allowed_orders, syntax_rules, idx,
                    snapshot, error, shown >>

NextSyntax ==
    \/ SetOrder
    \/ GenerateSentence

SpecSyntax == Init /\ [][NextSyntax]_vars

----------------------------------------------------------------------------
(* LanguageCreatorGame: levels 2 and 3 and the final showcase *)

\* list.remove(x): the first occurrence goes.
RECURSIVE list_remove(_, _)
list_remove(list, x) ==
    IF list = <<>> THEN <<>>
    ELSE IF Head(list) = x THEN Tail(list)
    ELSE <<Head(list)>> \o list_remove(Tail(list), x)

\* The bucket of an answer at the word-class prompt: noun unless v or c.
bucket_of(word_class) ==
    IF word_class = "n" THEN "noun"
    ELSE IF word_class = "v" THEN "verb"
    ELSE IF word_class = "c" THEN "case"
    ELSE "noun"

\* Bound: the answers at the word-class prompt.
ClassInputs == {"n", "v", "c", ""}

\* One iteration of the classification loop over the copy of the unknown
\* bucket: the word is appended to its bucket and removed from unknown.
Level2Classify ==
    /\ pc = "level2_classify" /\ error = "none" /\ current_level = 2
    /\ LET copy == IF idx = 0 THEN vocabulary["unknown"] ELSE snapshot
           word == copy[idx + 1]
       IN  /\ idx < Len(copy)
           /\ snapshot' = copy
           /\ \E word_class \in ClassInputs :
               /\ vocabulary' =
                      [vocabulary EXCEPT
                          ![bucket_of(word_class)] = Append(@, word),
                          !["unknown"] = list_remove(@, word)]
               /\ shown' = [op |-> "classify", args |-> <<word, word_class>>,
                            ret |-> Ok(<<>>)]
           /\ IF idx + 1 = Len(copy)
              THEN pc' = "level2_rules" /\ idx' = 0
              ELSE pc' = pc /\ idx' = idx + 1
    /\ UNCHANGED << current_level, consonants, vowels, rules, default_order,
                    allowed_orders, syntax_rules, error, call >>

\* input(...) or default.
input_or(typed, default) == IF typed = <<>> THEN default ELSE typed

\* Bound: what the user types at the three marker prompts (past, voice,
\* aspect): ENTER at each, a marker at each, a marker at the first only.
MarkerInputs ==
    { << <<>>, <<>>, <<>> >>,
      << <<"m", "u", "-">>, <<"-", "e">>, <<"-", "o", "k">> >>,
      << <<"m", "u", "-">>, <<>>, <<>> >> }

verbRuleLIST == <<"past", "voice", "aspect">>

\* for r in applyLIST: form = apply_morphology(form, r).
RECURSIVE inflect(_, _, _)
inflect(rule_list, form, applyLIST) ==
    IF applyLIST = <<>> THEN form
    ELSE inflect(rule_list,
                 apply_morphology(rule_list, form, Head(applyLIST)),
                 Tail(applyLIST))

\* The rest of level 2: the three rules are registered, the demonstration
\* inflects a verb (when there is one) without keeping or printing the form,
\* and the case bucket is set to the two markers. The copy of the unknown
\* bucket goes with the return.
Level2Rules ==
    /\ pc = "level2_rules" /\ error = "none" /\ current_level = 2
    /\ \E typed \in MarkerInputs :
        LET past_marker == input_or(typed[1], <<"n", "i", "-">>)
            voice_marker == input_or(typed[2], <<"-", "a">>)
            aspect_marker == input_or(typed[3], <<"-", "a", "t", "o">>)
        IN  rules' =
                add_rule(
                  add_rule(
                    add_rule(rules, "past", "prefix", past_marker),
                    "voice", "suffix", voice_marker),
                  "aspect", "suffix", aspect_marker)
    /\ vocabulary' = [vocabulary EXCEPT !["case"] = << <<"t", "a">>, <<"k", "i">> >>]
    /\ current_level' = 3
    /\ pc' = "level3_setup"
    /\ shown' = Nothing
    /\ snapshot' = <<>>
    /\ UNCHANGED << consonants, vowels, default_order, allowed_orders,
                    syntax_rules, idx, error, call >>

\* if not bucket: bucket.append(generate_word()): what the call may return,
\* no call when the bucket holds a word.
filler_draws(bucket, C, V) ==
    IF bucket = <<>> THEN generate_word(C, V) ELSE {Ok(<<>>)}

\* A slip the claims about the buckets must notice: the filler is dropped.
fill_bucket_never(bucket, filler) == bucket

fill_bucket(bucket, filler) ==
    IF bucket = <<>> THEN <<filler.val>> ELSE bucket

Failed(site, r) == [op |-> "raise", args |-> <<site>>, ret |-> r]

\* Level 3 up to its sentence loop: the order is configured, the basic rule
\* is registered, and an empty noun or verb bucket gets a generated word.
Level3Setup ==
    /\ pc = "level3_setup" /\ error = "none" /\ current_level = 3
    /\ \E noun_filler \in filler_draws(vocabulary["noun"], consonants, vowels),
          verb_filler \in filler_draws(vocabulary["verb"], consonants, vowels) :
        /\ \E order_choice \in OrderChoices, allow \in AllowChoices :
            LET main_order == main_order_of(order_choice) IN
            /\ default_order' = main_order
            /\ allowed_orders' = allowed_orders_of(main_order, allow)
            /\ syntax_rules' =
                   Append(syntax_rules,
                          [name |-> "basic_sentence", pattern |-> main_order])
        /\ IF noun_filler.err # "none"
           THEN /\ error' = noun_filler.err
                /\ shown' = Failed("filler", noun_filler)
                /\ UNCHANGED << vocabulary, pc, idx >>
           ELSE IF verb_filler.err # "none"
           THEN /\ error' = verb_filler.err
                /\ shown' = Failed("filler", verb_filler)
                /\ vocabulary' =
                       [vocabulary EXCEPT
                           !["noun"] = fill_bucket(@, noun_filler)]
                /\ UNCHANGED << pc, idx >>
           ELSE /\ vocabulary' =
                       [vocabulary EXCEPT
                           !["noun"] = fill_bucket(@, noun_filler),
                           !["verb"] = fill_bucket(@, verb_filler)]
                /\ pc' = "level3_sentences"
                /\ idx' = 0
                /\ shown' = Nothing
                /\ error' = error
    /\ UNCHANGED << current_level, consonants, vowels, rules, snapshot, call >>

\* range(3): the sentences of level 3 and of the showcase.
NumSentences == 3

\* list[k] of a Python list, k from 0: IndexError past the end.
item(list, k) ==
    IF k + 1 <= Len(list) THEN Ok(list[k + 1]) ELSE Raise("IndexError")

\* One iteration of the sentence loop of level 3; after the last one
\* run_game goes on to the showcase.
Level3Sentence ==
    /\ pc = "level3_sentences" /\ error = "none" /\ idx < NumSentences
    /\ LET NOM == item(vocabulary["case"], 0)
           OBL == item(vocabulary["case"], 1)
       IN
       \E noun \in list_choice(vocabulary["noun"]),
          verb \in list_choice(vocabulary["verb"]) :
        IF NOM.err # "none" \/ OBL.err # "none"
        THEN /\ error' = "IndexError"
             /\ shown' = Failed("case", Raise("IndexError"))
             /\ UNCHANGED << pc, idx >>
        ELSE IF noun.err # "none"
        THEN /\ error' = noun.err
             /\ shown' = Failed("noun", noun)
             /\ UNCHANGED << pc, idx >>
        ELSE IF verb.err # "none"
        THEN /\ error' = verb.err
             /\ shown' = Failed("verb", verb)
             /\ UNCHANGED << pc, idx >>
        ELSE LET subject == NOM.val \o SP \o noun.val
                 obj == OBL.val \o SP \o noun.val
             IN  /\ shown' =
                        [op |-> "sentence",
                         args |-> <<subject, verb.val, obj>>,
                         ret |-> Ok(generate_sentence(default_order, subject,
                                        verb.val, obj, NoOrder))]
                 /\ error' = error
                 /\ IF idx + 1 = NumSentences
                    THEN pc' = "showcase" /\ idx' = 0
                    ELSE pc' = pc /\ idx' = idx + 1
    /\ UNCHANGED << current_level, consonants, vowels, vocabulary, rules,
                    default_order, allowed_orders, syntax_rules, snapshot,
                    call >>

\* [n for n in noun if n != subjNoun]
others(list, subjNoun) == SelectSeq(list, LAMBDA n : n # subjNoun)

\* The sentences of one example: the default order, then each allowed one.
sentences_of(default, orders, subject, verb, obj) ==
    << [order |-> NoOrder, subject |-> subject, verb |-> verb, obj |-> obj,
        text |-> generate_sentence(default, subject, verb, obj, NoOrder)] >>
    \o [k \in 1..Len(orders) |->
           [order |-> orders[k], subject |-> subject, verb |-> verb,
            obj |-> obj,
            text |-> generate_sentence(default, subject, verb, obj,
                                       orders[k])]]

\* One iteration of the example loop of final_showcase. The variable rule
\* is the one the loop that printed the rules left behind: the last rule.
Showcase ==
    /\ pc = "showcase" /\ error = "none" /\ idx < NumSentences
    /\ IF vocabulary["noun"] # <<>> /\ vocabulary["verb"] # <<>>
       THEN
         LET NOM == item(vocabulary["case"], 0)
             OBL == item(vocabulary["case"], 1)
         IN
         \E subjNoun \in list_choice(vocabulary["noun"]),
            verb \in list_choice(vocabulary["verb"]),
            ruleINT \in 1..3 :
          \E objNoun \in
               list_choice(others(vocabulary["noun"], subjNoun.val)) :
           IF NOM.err # "none" \/ OBL.err # "none"
           THEN /\ error' = "IndexError"
                /\ shown' = Failed("case", Raise("IndexError"))
                /\ UNCHANGED << pc, idx >>
           ELSE IF objNoun.err # "none"
           THEN /\ error' = objNoun.err
                /\ shown' = Failed("objNoun", objNoun)
                /\ UNCHANGED << pc, idx >>
           ELSE
             LET subject0 == NOM.val \o SP \o subjNoun.val
                 obj0 == OBL.val \o SP \o objNoun.val
                 cut == IF rules # <<>> THEN ruleINT ELSE 0
                 form == inflect(rules, verb.val, SubSeq(verbRuleLIST, 1, cut))
                 cased == rules # <<>> /\ rules[Len(rules)].name = "case"
                 subject == IF cased
                            THEN apply_morphology(rules, subject0, "case")
                            ELSE subject0
                 obj == IF cased
                        THEN apply_morphology(rules, obj0, "case")
                        ELSE obj0
             IN  /\ shown' =
                        [op |-> "showcase",
                         args |-> <<subjNoun.val, objNoun.val, verb.val, cut>>,
                         ret |-> Ok(sentences_of(default_order, allowed_orders,
                                                 subject, form, obj))]
                 /\ error' = error
                 /\ IF idx + 1 = NumSentences
                    THEN pc' = "done" /\ idx' = 0
                    ELSE pc' = pc /\ idx' = idx + 1
       ELSE /\ shown' = Nothing
            /\ error' = error
            /\ IF idx + 1 = NumSentences
               THEN pc' = "done" /\ idx' = 0
               ELSE pc' = pc /\ idx' = idx + 1
    /\ UNCHANGED << current_level, consonants, vowels, vocabulary, rules,
                    default_order, allowed_orders, syntax_rules, snapshot,
                    call >>

\* run_game, on the runs that keep the inventories level 1 starts with (the
\* requests of level 1 are followed in SpecPhonology).
Next ==
    \/ Level1ConsonantsDone
    \/ Level1VowelsDone
    \/ Level1Generate
    \/ Level2Classify
    \/ Level2Rules
    \/ Level3Setup
    \/ Level3Sentence
    \/ Showcase

Spec == Init /\ [][Next]_vars

----------------------------------------------------------------------------
(* Claims about the engines *)

\* The three constituents in the arrangement of a tag, SVO for any tag
\* outside the four, and a list of strings joined by single spaces.
Arranged(tag, subject, verb, obj) ==
    IF tag = "SOV" THEN <<subject, obj, verb>>
    ELSE IF tag = "VOS" THEN <<verb, obj, subject>>
    ELSE IF tag = "VSO" THEN <<verb, subject, obj>>
    ELSE <<subject, verb, obj>>

RECURSIVE Joined(_)
Joined(parts) ==
    IF Len(parts) = 1 THEN parts[1]
    ELSE parts[1] \o SP \o Joined(Tail(parts))

\* A non-empty string with no whitespace in it.
NoSpace(s) == s # <<>> /\ \A k \in 1..Len(s) : s[k] # " "

SentenceCall == call.op = "generate_sentence"

\* C1 as stated: for all non-empty subject, verb and object and every order
\* argument, generate_sentence returns the three constituents joined by
\* single spaces in the arrangement of the effective tag, which is the order
\* argument, or default_order when the argument is omitted; a tag outside
\* the four gives the SVO string.
C1_AsStated ==
    SentenceCall =>
        LET default == call.args[1]
            subject == call.args[2]
            verb == call.args[3]
            obj == call.args[4]
            order == call.args[5]
            tag == IF order = NoOrder THEN default ELSE order
        IN  (subject # <<>> /\ verb # <<>> /\ obj # <<>>) =>
                call.ret = Ok(Joined(Arranged(tag, subject, verb, obj)))

\* C1 amended: for all non-empty subject, verb and object of which the one
\* arranged first does not begin with whitespace and the one arranged last
\* does not end with it, and every order argument, generate_sentence returns
\* the three constituents joined by single spaces in the arrangement of the
\* effective tag, which is the order argument, or default_order when the
\* argument is omitted or is the empty string; a tag outside the four gives
\* the SVO string.
C1_OrderingTable ==
    SentenceCall =>
        LET default == call.args[1]
            subject == call.args[2]
            verb == call.args[3]
            obj == call.args[4]
            order == call.args[5]
            tag == IF order \in {NoOrder, ""} THEN default ELSE order
            parts == Arranged(tag, subject, verb, obj)
        IN  ( /\ subject # <<>> /\ verb # <<>> /\ obj # <<>>
              /\ parts[1][1] # " "
              /\ parts[3][Len(parts[3])] # " " ) =>
                call.ret = Ok(Joined(parts))

\* C1's case: with SOV the default, an unrecognized tag has arranged three
\* constituents as SVO.
C1_Witness ==
    /\ SentenceCall
    /\ call.args = << "SOV", <<"t", " ", "s">>, <<"v">>, <<"k", " ", "o">>,
                      "OSV" >>
    /\ call.ret.val = <<"t", " ", "s", " ", "v", " ", "k", " ", "o">>

\* C3: generate_sentence called with an empty object returns, for each of the
\* tags SVO, SOV, VOS, VSO and for an unrecognized tag, subject and verb in
\* the order of the tag joined by exactly one space, with no leading, no
\* trailing and no doubled space (stated for a subject and a verb that hold
\* no whitespace themselves).
C3_NoDanglingSpace ==
    SentenceCall =>
        LET subject == call.args[2]
            verb == call.args[3]
            obj == call.args[4]
            order == call.args[5]
        IN  ( /\ obj = <<>>
              /\ order \in {"SVO", "SOV", "VOS", "VSO", "OSV"}
              /\ NoSpace(subject) /\ NoSpace(verb) ) =>
                call.ret = Ok(IF order \in {"VOS", "VSO"}
                              THEN verb \o SP \o subject
                              ELSE subject \o SP \o verb)

MorphologyCall == call.op = "apply_morphology"

Matches(rule_list, rule_name) ==
    {k \in 1..Len(rule_list) : rule_list[k].name = rule_name}

FirstMatch(rule_list, rule_name) ==
    CHOOSE k \in Matches(rule_list, rule_name) :
        \A j \in Matches(rule_list, rule_name) : k <= j

Transformed(rule, base_word) ==
    CASE rule.rule_type = "prefix" -> rule.marker \o base_word
      [] rule.rule_type = "suffix" -> base_word \o rule.marker
      [] rule.rule_type = "reduplication" -> base_word \o base_word
      [] OTHER -> base_word

\* C2: apply_morphology returns the transformation of the first rule, in
\* insertion order, whose name equals rule_name, and of no other: an infix
\* rule leaves the word unchanged, and a later rule of the same name never
\* affects the result.
C2_FirstMatchWins ==
    MorphologyCall =>
        LET rule_list == call.args[1]
            base_word == call.args[2]
            rule_name == call.args[3]
        IN  Matches(rule_list, rule_name) # {} =>
                call.ret =
                    Ok(Transformed(rule_list[FirstMatch(rule_list, rule_name)],
                                   base_word))

\* C8: apply_morphology is total and silent on a miss: with no rule of the
\* name in the list (the empty list included) it returns the word unchanged,
\* raises nothing, and leaves the rules list as it was.
C8_SilentMiss ==
    /\ [](MorphologyCall /\ Matches(call.args[1], call.args[3]) = {}
            => call.ret = Ok(call.args[2]))
    /\ [][call' # call /\ call'.op = "apply_morphology"
            => rules' = rules /\ call'.args[1] = rules]_vars

\* C8's case: a rule is registered and a word was inflected under a name
\* the list does not hold.
C8_Witness ==
    /\ MorphologyCall
    /\ call.args[1] # <<>>
    /\ call.args[2] # <<>>
    /\ call.args[3] = "nonexistent"
    /\ call.ret.val = call.args[2]
    /\ rules = call.args[1]

\* C4: after the add and remove requests of level 1, generate_syllable fails
\* with an explicit empty-inventory error exactly when the pattern it chose
\* has a slot whose set is empty, then returning no string at all, and
\* returns a syllable when every slot of the pattern has a non-empty set.
C4_EmptyInventoryError ==
    call.op = "generate_syllable" =>
        LET pattern == call.args[1]
            starved ==
                \E k \in 1..Len(pattern) :
                    \/ pattern[k] = "C" /\ consonants = {}
                    \/ pattern[k] = "V" /\ vowels = {}
        IN  /\ starved <=> call.ret.err = "EmptyInventoryError"
            /\ starved => call.ret.val = <<>>
            /\ ~starved => call.ret.err = "none" /\ call.ret.val # <<>>

RejectedRequest(r, C, V) ==
    \/ r.op = "add_consonant" /\ (r.args[1] = <<>> \/ Len(r.args[1]) > 2)
    \/ r.op = "add_vowel" /\ (r.args[1] = <<>> \/ Len(r.args[1]) > 3)
    \/ r.op = "remove_consonant" /\ r.args[1] \notin C
    \/ r.op = "remove_vowel" /\ r.args[1] \notin V

\* C7: in level 1 an add request of an empty or over-long string (more than
\* 2 characters for a consonant, more than 3 for a vowel) and a remove
\* request of a string not in the set leave both inventories unchanged and
\* raise nothing; after any sequence of requests every consonant has 1 to 2
\* characters and every vowel 1 to 3.
C7_ValidationRejection ==
    /\ []( /\ \A c \in consonants : Len(c) \in 1..2
           /\ \A v \in vowels : Len(v) \in 1..3 )
    /\ [][RejectedRequest(shown', consonants, vowels)
            => consonants' = consonants /\ vowels' = vowels
               /\ error' = "none"]_vars

\* C7's case: the vowel "aei" was added, and the over-long "aeio" was then
\* asked for and passed over.
C7_Witness ==
    /\ shown = Request("add_vowel", <<"a", "e", "i", "o">>)
    /\ <<"a", "e", "i">> \in vowels
    /\ <<"a", "e", "i", "o">> \notin vowels
    /\ <<"a", "e", "i">> \notin consonants

----------------------------------------------------------------------------
(* Claims about the run of the game *)

Classes == {"noun", "verb", "case"}

Members(list) == {list[k] : k \in 1..Len(list)}

\* C5: every word generated into the unknown bucket is moved by the
\* classification of level 2 into the one bucket chosen for it (noun when
\* the answer is none of n, v, c) and from then to the end of the run stays
\* in that bucket; the unknown bucket is empty once level 2 completes.
C5_ExactlyOneClass ==
    /\ [](pc \in {"level3_setup", "level3_sentences", "showcase", "done"}
            => vocabulary["unknown"] = <<>>)
    /\ [][pc = "level2_classify"
            => LET word == shown'.args[1]
                   bucket == bucket_of(shown'.args[2])
               IN  /\ vocabulary'[bucket] = Append(vocabulary[bucket], word)
                   /\ Len(vocabulary'["unknown"]) =
                          Len(vocabulary["unknown"]) - 1
                   /\ \A b \in Classes \ {bucket} :
                          vocabulary'[b] = vocabulary[b]]_vars
    /\ [][\A b \in Classes :
            Members(vocabulary[b]) \subseteq Members(vocabulary'[b])]_vars

\* C6: in every run, where level 3 or the showcase draws the subject noun,
\* draws the verb, or reads the case markers 0 and 1, the noun and the verb
\* bucket are non-empty (a generated filler being appended to an empty one)
\* and the case bucket holds at least 2 entries: none of these draws and
\* reads raises.
C6_DrawsAreSafe ==
    /\ (pc = "level3_sentences" /\ error = "none")
        => /\ vocabulary["noun"] # <<>>
           /\ vocabulary["verb"] # <<>>
           /\ Len(vocabulary["case"]) >= 2
    /\ ( /\ pc = "showcase" /\ error = "none"
         /\ vocabulary["noun"] # <<>> /\ vocabulary["verb"] # <<>> )
        => Len(vocabulary["case"]) >= 2
    /\ shown.op = "raise" => shown.args[1] \notin {"case", "noun", "verb"}

\* C6's case: all the words were classified as nouns, the verb bucket got a
\* filler, and level 3 has drawn from both buckets for a sentence.
C6_Witness ==
    /\ pc = "level3_sentences"
    /\ shown.op = "sentence"
    /\ Len(vocabulary["noun"]) = NumWords
    /\ Len(vocabulary["verb"]) = 1

\* C9: in the showcase, for every non-empty noun bucket, the object noun is
\* a member of the bucket that differs from the subject noun whenever the
\* bucket holds two distinct words; when no distinct noun is possible the
\* synthesis still completes and emits a sentence instead of failing on a
\* choice from an empty list.
C9_ObjectNoun ==
    /\ pc = "showcase" => error = "none"
    /\ shown.op = "showcase"
        => /\ shown.args[2] \in Members(vocabulary["noun"])
           /\ Cardinality(Members(vocabulary["noun"])) >= 2
                => shown.args[2] # shown.args[1]

\* C10: in the showcase, with the rules past (prefix), voice (suffix) and
\* aspect (suffix) of level 2 registered, the verb handed to
\* generate_sentence for a drawn verb v and a cut k in {1,2,3} is past+v,
\* past+v+voice or past+v+voice+aspect for k = 1, 2, 3, and the same
\* inflected verb, subject and object are used for the sentence in the
\* default order and for one sentence in each allowed order.
C10_VerbInflection ==
    shown.op = "showcase" =>
        LET v == shown.args[3]
            k == shown.args[4]
            sentences == shown.ret.val
            past == rules[1].marker
            voice == rules[2].marker
            aspect == rules[3].marker
        IN  /\ <<rules[1].name, rules[2].name, rules[3].name>> = verbRuleLIST
            /\ k \in 1..3
            /\ sentences[1].verb =
                   IF k = 1 THEN past \o v
                   ELSE IF k = 2 THEN past \o v \o voice
                   ELSE past \o v \o voice \o aspect
            /\ sentences[1].order = NoOrder
            /\ Len(sentences) = 1 + Len(allowed_orders)
            /\ \A j \in 2..Len(sentences) :
                /\ sentences[j].order = allowed_orders[j - 1]
                /\ sentences[j].verb = sentences[1].verb
                /\ sentences[j].subject = sentences[1].subject
                /\ sentences[j].obj = sentences[1].obj

\* C10's case: with typed markers and VSO allowed besides VOS, the verb "a"
\* was inflected with all three rules and two sentences were emitted.
C10_Witness ==
    /\ shown.op = "showcase"
    /\ shown.args[3] = <<"a">>
    /\ shown.args[4] = 3
    /\ Len(shown.ret.val) = 2
    /\ shown.ret.val[2].verb = <<"m", "u", "-", "a", "-", "e", "-", "o", "k">>

====
